---- MODULE Spec2Model ----
(***************************************************************************)
(* Model of custom_components/robovac/vacuum.py (RoboVacEntity) and of     *)
(* the battery sensor in sensor.py.                                        *)
(*                                                                         *)
(* The entity runs on one asyncio event loop: code between two awaits is   *)
(* one atomic step.  The awaits of the entity are vacuum.async_get(),      *)
(* vacuum.async_set() and asyncio.sleep(); every action below is the code  *)
(* from one await (or the handler's entry) to the next.                    *)
(*                                                                         *)
(* Python values: a str is a TLA+ string, None of a str-valued field is    *)
(* the string "None", an `int | None` is a set with at most one element,   *)
(* a dict is a function whose DOMAIN is the set of keys present.  Strings  *)
(* that the code parses (battery, fan speed) are sequences of characters.  *)
(***************************************************************************)
EXTENDS Integers, Sequences, FiniteSets, TLC

\* Program constants
UPDATE_RETRIES == 3
WARMUP_ATTEMPTS == 5

\* Bounds of the model
MaxFailures == 3
MaxTasks == 2

None == "None"

\* dict.get(key) / dict.get(key, default) for a str-valued key
Get(d, k) == IF k \in DOMAIN d THEN d[k] ELSE None
GetOr(d, k, default) == IF k \in DOMAIN d THEN d[k] ELSE default

\* Python truthiness of the values a data point can carry
Truthy(v) == v \notin {None, "False", ""}

EmptyDict == [k \in {} |-> None]

TUYA_STATUS_MAPPING ==
    [w \in {"BgoAEAUyAA==", "BgoAEAVSAA==", "CAoAEAUyAggB", "CAoCCAEQBTIA",
            "CAoCCAEQBVIA", "CgoCCAEQBTICCAE=", "CAoCCAIQBTIA", "CAoCCAIQBVIA",
            "CgoCCAIQBTICCAE=", "BAoAEAY=", "BBAHQgA=", "BBADGgA=",
            "BhADGgIIAQ==", "AA==", "AhAB"} |->
        CASE w = "BgoAEAUyAA==" -> "AUTO"
          [] w = "BgoAEAVSAA==" -> "POSITION"
          [] w = "CAoAEAUyAggB" -> "PAUSE"
          [] w = "CAoCCAEQBTIA" -> "ROOM"
          [] w = "CAoCCAEQBVIA" -> "ROOM_POSITION"
          [] w = "CgoCCAEQBTICCAE=" -> "ROOM_PAUSE"
          [] w = "CAoCCAIQBTIA" -> "SPOT"
          [] w = "CAoCCAIQBVIA" -> "SPOT_POSITION"
          [] w = "CgoCCAIQBTICCAE=" -> "SPOT_PAUSE"
          [] w = "BAoAEAY=" -> "START_MANUAL"
          [] w = "BBAHQgA=" -> "GOING_TO_CHARGE"
          [] w = "BBADGgA=" -> "CHARGING"
          [] w = "BhADGgIIAQ==" -> "COMPLETED"
          [] w = "AA==" -> "STANDBY"
          [] w = "AhAB" -> "SLEEPING"]

STATUS_MAPPING ==
    [c \in {"AUTO", "POSITION", "PAUSE", "ROOM", "ROOM_POSITION", "ROOM_PAUSE",
            "SPOT", "SPOT_POSITION", "SPOT_PAUSE", "START_MANUAL",
            "GOING_TO_CHARGE", "CHARGING", "COMPLETED", "STANDBY", "SLEEPING"} |->
        CASE c = "AUTO" -> "Auto cleaning"
          [] c = "POSITION" -> "Positioning"
          [] c = "PAUSE" -> "Cleaning paused"
          [] c = "ROOM" -> "Cleaning room"
          [] c = "ROOM_POSITION" -> "Positioning room"
          [] c = "ROOM_PAUSE" -> "Cleaning room paused"
          [] c = "SPOT" -> "Spot cleaning"
          [] c = "SPOT_POSITION" -> "Positioning spot"
          [] c = "SPOT_PAUSE" -> "Cleaning spot paused"
          [] c = "START_MANUAL" -> "Manual mode"
          [] c = "GOING_TO_CHARGE" -> "Recharge"
          [] c = "CHARGING" -> "Charging"
          [] c = "COMPLETED" -> "Completed"
          [] c = "STANDBY" -> "Standby"
          [] c = "SLEEPING" -> "Sleeping"]

ERROR_MAPPING ==
    [w \in {"DAiI6suO9dXszgFSAA==", "FAjwudWorOPszgEaAqURUgQSAqUR",
            "FAj+nMu7zuPszgEaAtg2UgQSAtg2", "DAjtzbfps+XszgFSAA==",
            "DAiom9rd6eTszgFSAA==", "DAia8JTV5OPszgFSAA==",
            "DAj489bWsePszgFSAA=="} |->
        CASE w = "FAjwudWorOPszgEaAqURUgQSAqUR" -> "Sidebrush stuck"
          [] w = "FAj+nMu7zuPszgEaAtg2UgQSAtg2" -> "Robot stuck"
          [] OTHER -> "no_error"]

\* RoboVacEntityFeature bits that gate an optional field
Features == {"CLEANING_AREA", "CLEANING_TIME", "AUTO_RETURN", "DO_NOT_DISTURB",
             "BOOST_IQ", "CONSUMABLES"}

----------------------------------------------------------------------------
\* Strings the code parses, as sequences of characters

Digits == {"0", "1", "2", "3", "4", "5", "6", "7", "8", "9"}

DigitValue(c) ==
    CASE c = "0" -> 0 [] c = "1" -> 1 [] c = "2" -> 2 [] c = "3" -> 3
      [] c = "4" -> 4 [] c = "5" -> 5 [] c = "6" -> 6 [] c = "7" -> 7
      [] c = "8" -> 8 [] c = "9" -> 9

RECURSIVE DecimalValue(_)
DecimalValue(s) ==
    IF s = <<>> THEN 0
    ELSE 10 * DecimalValue(SubSeq(s, 1, Len(s) - 1)) + DigitValue(s[Len(s)])

\* Mutant of ParseBattery: a value that is no number is read as 0
ParseBattery_zero_for_text(d) ==
    IF "BATTERY" \notin DOMAIN d THEN {}
    ELSE LET raw == d["BATTERY"]
         IN IF raw # <<>> /\ \A i \in 1..Len(raw) : raw[i] \in Digits
            THEN {DecimalValue(raw)}
            ELSE {0}

\* int(raw_batt) if raw_batt is not None else None, with ValueError -> None
ParseBattery(d) ==
    IF "BATTERY" \notin DOMAIN d THEN {}
    ELSE LET raw == d["BATTERY"]
         IN IF raw # <<>> /\ \A i \in 1..Len(raw) : raw[i] \in Digits
            THEN {DecimalValue(raw)}
            ELSE {}

Upper(c) ==
    CASE c = "a" -> "A" [] c = "b" -> "B" [] c = "i" -> "I" [] c = "m" -> "M"
      [] c = "o" -> "O" [] c = "q" -> "Q" [] c = "s" -> "S" [] c = "t" -> "T"
      [] c = "x" -> "X"
      [] OTHER -> c

\* input.replace("_", " ").split(): the words of the text
RECURSIVE SplitWords(_, _, _)
SplitWords(s, word, acc) ==
    IF s = <<>> THEN (IF word = <<>> THEN acc ELSE Append(acc, word))
    ELSE IF Head(s) \in {"_", " "}
         THEN SplitWords(Tail(s), <<>>, IF word = <<>> THEN acc ELSE Append(acc, word))
         ELSE SplitWords(Tail(s), Append(word, Head(s)), acc)

RECURSIVE JoinWords(_)
JoinWords(ws) ==
    IF ws = <<>> THEN <<>>
    ELSE IF Len(ws) = 1 THEN <<Upper(ws[1][1])>> \o Tail(ws[1])
    ELSE <<Upper(ws[1][1])>> \o Tail(ws[1]) \o <<" ">> \o JoinWords(Tail(ws))

friendly_text(input) == JoinWords(SplitWords(input, <<>>, <<>>))

----------------------------------------------------------------------------
\* Consumables blob: ast.literal_eval(base64.b64decode(raw).decode("ascii")),
\* then the "consumable"/"duration" lookups.  raises: one of the three calls or
\* the `in` test raised; duration: the value found, None when a key is missing.
ConsumablesDecode(raw) ==
    CASE raw = "eyJjb25zdW1hYmxlIjp7ImR1cmF0aW9uIjoxMjB9fQ==" ->
            [raises |-> FALSE, duration |-> "120"]
      [] raw = "eyJjb25zdW1hYmxlIjp7ImR1cmF0aW9uIjo5MH19" ->
            [raises |-> FALSE, duration |-> "90"]
      [] raw = "eyJjb25zdW1hYmxlIjp7fX0=" ->
            [raises |-> FALSE, duration |-> None]
      [] raw = "eyJvdGhlciI6MX0=" ->
            [raises |-> FALSE, duration |-> None]
      [] OTHER ->
            [raises |-> TRUE, duration |-> None]

----------------------------------------------------------------------------
VARIABLES
    vacuum,                \* "RoboVac", or "None" when the constructor raised
    ip_address,            \* _attr_ip_address
    robovac_supported,     \* _attr_robovac_supported, the set of bits set
    feed,                  \* the snapshots the device sends in this run
    dps,                   \* vacuum._dps, the transport's current snapshot
    disabled,              \* vacuum.async_disable() has been called
    error_code,
    tuya_state,
    tuyastatus,
    attr_available,        \* _attr_available
    update_failures,
    battery_level_cache,   \* _battery_level_cache
    attr_mode,
    attr_fan_speed,
    attr_cleaning_area,
    attr_cleaning_time,
    attr_auto_return,
    attr_do_not_disturb,
    attr_boost_iq,
    attr_consumables,
    added_pc,              \* position of async_added_to_hass / lifecycle
    attempt,               \* loop variable of the warm-up
    update_pc,             \* position of the scheduled async_update
    forced_pending,        \* detached async_forced_update tasks not yet run
    forced_in_get,         \* detached tasks awaiting vacuum.async_get()
    cmd,                   \* the command handler invocation in progress / last
    battery_level,         \* RobovacBatterySensor._battery_level
    last,                  \* the outcome of the step just taken
    fail_streak,           \* scheduled polls failed since the last success
    get_called,            \* vacuum.async_get() has been called at least once
    late_call              \* a get or set was issued after async_disable()

config == <<vacuum, ip_address, robovac_supported, feed>>
optional == <<attr_cleaning_area, attr_cleaning_time, attr_auto_return,
              attr_do_not_disturb, attr_boost_iq, attr_consumables>>
decoded == <<error_code, tuya_state, tuyastatus, battery_level_cache, attr_mode,
             attr_fan_speed, optional>>
health == <<attr_available, update_failures, fail_streak>>
tasks == <<forced_pending, forced_in_get>>
transport == <<dps, disabled, get_called, late_call>>
vars == <<config, decoded, health, tasks, transport, added_pc, attempt,
          update_pc, cmd, battery_level, last>>

\* Feature masks the transport reports (getRoboVacFeatures)
MaskChoices == {{"AUTO_RETURN"}, Features \ {"AUTO_RETURN"}}

NoCommand == [name |-> None, params |-> EmptyDict, pc |-> "idle",
              pending |-> <<>>, issued |-> <<>>, done |-> <<>>, spawned |-> 0]

\* What the device reports.  SnapDocked: docked and healthy, every data point
\* present.  SnapFault: a fault with an unknown status code, a non-numeric
\* battery and an undecodable consumables blob.
SnapDocked ==
    ("STATUS" :> "BBADGgA=") @@ ("ERROR" :> "DAiI6suO9dXszgFSAA==")
    @@ ("BATTERY" :> <<"8", "5">>) @@ ("MODE" :> "AA==")
    @@ ("FAN_SPEED" :> <<"m", "a", "x">>) @@ ("LOCATE" :> "True")
    @@ ("CLEANING_AREA" :> "12") @@ ("CLEANING_TIME" :> "30")
    @@ ("AUTO_RETURN" :> "True") @@ ("DO_NOT_DISTURB" :> "True")
    @@ ("BOOST_IQ" :> "True")
    @@ ("CONSUMABLES" :> "eyJjb25zdW1hYmxlIjp7ImR1cmF0aW9uIjoxMjB9fQ==")

SnapFault ==
    ("STATUS" :> "ZZZZ") @@ ("ERROR" :> "FAj+nMu7zuPszgEaAtg2UgQSAtg2")
    @@ ("BATTERY" :> <<"a", "b", "c">>) @@ ("AUTO_RETURN" :> "False")
    @@ ("CONSUMABLES" :> "bm90IGEgbGl0ZXJhbA==")

\* The snapshots the device sends while the entity runs
Snapshots == {SnapDocked, SnapFault}

\* RoboVacEntity.__init__, for every configuration entry
InitEntity ==
    /\ ip_address \in {"", "192.168.1.20"}
    /\ \/ /\ vacuum = "RoboVac"
          /\ error_code = None
          /\ robovac_supported \in MaskChoices
       \/ /\ vacuum = "None"
          /\ error_code = "UNSUPPORTED_MODEL"
          /\ robovac_supported = {}
    /\ update_failures = 0
    /\ fail_streak = 0
    /\ attr_available = TRUE
    /\ battery_level_cache = {}
    /\ attr_mode = None
    /\ attr_fan_speed = <<>>
    /\ attr_cleaning_area = None
    /\ attr_cleaning_time = None
    /\ attr_auto_return = None
    /\ attr_do_not_disturb = None
    /\ attr_boost_iq = None
    /\ attr_consumables = None
    /\ tuya_state = None
    /\ tuyastatus = EmptyDict
    /\ disabled = FALSE
    /\ added_pc = "constructed"
    /\ attempt = 0
    /\ update_pc = "idle"
    /\ forced_pending = 0
    /\ forced_in_get = 0
    /\ cmd = NoCommand
    /\ battery_level = {}
    /\ last = "init"
    /\ get_called = FALSE
    /\ late_call = FALSE

Init == InitEntity /\ dps = EmptyDict /\ feed = Snapshots

----------------------------------------------------------------------------
\* Mutant of activity: the status label is looked at before the error
activity_status_first ==
    IF tuya_state = None THEN "IDLE"
    ELSE IF tuya_state \in {"Charging", "Completed"} THEN "DOCKED"
    ELSE IF tuya_state = "Recharge" THEN "RETURNING"
    ELSE IF tuya_state \in {"Sleeping", "Standby"} THEN "IDLE"
    ELSE IF tuya_state = "Cleaning paused" THEN "PAUSED"
    ELSE IF Truthy(error_code) /\ error_code \notin {"0", "no_error"} THEN "ERROR"
    ELSE "CLEANING"

\* activity property
activity ==
    IF tuya_state = None THEN "IDLE"
    ELSE IF Truthy(error_code) /\ error_code \notin {"0", "no_error"}
              /\ error_code # None
         THEN "ERROR"
    ELSE IF tuya_state \in {"Charging", "Completed"} THEN "DOCKED"
    ELSE IF tuya_state = "Recharge" THEN "RETURNING"
    ELSE IF tuya_state \in {"Sleeping", "Standby"} THEN "IDLE"
    ELSE IF tuya_state = "Cleaning paused" THEN "PAUSED"
    ELSE "CLEANING"

\* update_entity_values raises: the consumables blob cannot be decoded
update_entity_values_raises(snap) ==
    /\ "CONSUMABLES" \in robovac_supported
    /\ Truthy(Get(snap, "CONSUMABLES"))
    /\ ConsumablesDecode(snap["CONSUMABLES"]).raises

\* Mutant of Gated: the capability bit is not tested
Gated_ungated(bit, snap, key, old) == Get(snap, key)

\* `if self.robovac_supported & <bit>:` around the assignment of a field
Gated(bit, snap, key, old) ==
    IF bit \in robovac_supported THEN Get(snap, key) ELSE old

\* Mutant of update_entity_values: the mode is taken from the snapshot the
\* transport held before this one, as if another decode had been interleaved
update_entity_values_torn(snap) ==
    /\ tuyastatus' = snap
    /\ battery_level_cache' = ParseBattery(snap)
    /\ tuya_state' = Get(STATUS_MAPPING, Get(TUYA_STATUS_MAPPING, Get(snap, "STATUS")))
    /\ error_code' = Get(ERROR_MAPPING, Get(snap, "ERROR"))
    /\ attr_mode' = Get(dps, "MODE")
    /\ attr_fan_speed' = friendly_text(GetOr(snap, "FAN_SPEED", <<>>))
    /\ attr_cleaning_area' = Gated("CLEANING_AREA", snap, "CLEANING_AREA", attr_cleaning_area)
    /\ attr_cleaning_time' = Gated("CLEANING_TIME", snap, "CLEANING_TIME", attr_cleaning_time)
    /\ attr_auto_return' = Gated("AUTO_RETURN", snap, "AUTO_RETURN", attr_auto_return)
    /\ attr_do_not_disturb' = Gated("DO_NOT_DISTURB", snap, "DO_NOT_DISTURB", attr_do_not_disturb)
    /\ attr_boost_iq' = Gated("BOOST_IQ", snap, "BOOST_IQ", attr_boost_iq)
    /\ attr_consumables' =
          IF /\ "CONSUMABLES" \in robovac_supported
             /\ Truthy(Get(snap, "CONSUMABLES"))
             /\ ~ConsumablesDecode(snap["CONSUMABLES"]).raises
             /\ ConsumablesDecode(snap["CONSUMABLES"]).duration # None
          THEN ConsumablesDecode(snap["CONSUMABLES"]).duration
          ELSE attr_consumables

\* update_entity_values, reading snapshot snap from vacuum._dps.  When the
\* consumables blob raises, every assignment before it has been made.
update_entity_values(snap) ==
    /\ tuyastatus' = snap
    /\ battery_level_cache' = ParseBattery(snap)
    /\ tuya_state' = Get(STATUS_MAPPING, Get(TUYA_STATUS_MAPPING, Get(snap, "STATUS")))
    /\ error_code' = Get(ERROR_MAPPING, Get(snap, "ERROR"))
    /\ attr_mode' = Get(snap, "MODE")
    /\ attr_fan_speed' = friendly_text(GetOr(snap, "FAN_SPEED", <<>>))
    /\ attr_cleaning_area' = Gated("CLEANING_AREA", snap, "CLEANING_AREA", attr_cleaning_area)
    /\ attr_cleaning_time' = Gated("CLEANING_TIME", snap, "CLEANING_TIME", attr_cleaning_time)
    /\ attr_auto_return' = Gated("AUTO_RETURN", snap, "AUTO_RETURN", attr_auto_return)
    /\ attr_do_not_disturb' = Gated("DO_NOT_DISTURB", snap, "DO_NOT_DISTURB", attr_do_not_disturb)
    /\ attr_boost_iq' = Gated("BOOST_IQ", snap, "BOOST_IQ", attr_boost_iq)
    /\ attr_consumables' =
          IF /\ "CONSUMABLES" \in robovac_supported
             /\ Truthy(Get(snap, "CONSUMABLES"))
             /\ ~ConsumablesDecode(snap["CONSUMABLES"]).raises
             /\ ConsumablesDecode(snap["CONSUMABLES"]).duration # None
          THEN ConsumablesDecode(snap["CONSUMABLES"]).duration
          ELSE attr_consumables

----------------------------------------------------------------------------
\* Mutant of update_vacuum_path: the address check is missing
update_vacuum_path_no_address_check ==
    IF error_code = "UNSUPPORTED_MODEL" THEN "unsupported" ELSE "get"

\* async_update_vacuum: which of its three paths is taken
update_vacuum_path ==
    IF error_code = "UNSUPPORTED_MODEL" THEN "unsupported"
    ELSE IF ip_address = "" THEN "no_ip"
    ELSE "get"

\* Home Assistant polls an entity from the start of async_added_to_hass until
\* it is removed.
Polled == added_pc \in {"get", "sleep", "added"}

IssueGet ==
    /\ get_called' = TRUE
    /\ late_call' = (late_call \/ disabled)
    /\ UNCHANGED <<dps, disabled>>

----------------------------------------------------------------------------
\* Scheduled poll: async_update

\* async_update_vacuum returns before the get (unsupported model or no
\* address); async_update then takes its success path.
async_update_no_get ==
    /\ Polled /\ update_pc = "idle"
    /\ update_vacuum_path # "get"
    /\ error_code' = IF update_vacuum_path = "no_ip" THEN "IP_ADDRESS" ELSE error_code
    /\ update_failures' = 0
    /\ fail_streak' = 0
    /\ attr_available' = TRUE
    /\ last' = "poll_skip"
    /\ UNCHANGED <<config, tuya_state, tuyastatus, battery_level_cache, attr_mode,
                   attr_fan_speed, optional, tasks, transport, added_pc, attempt,
                   update_pc, cmd, battery_level>>

async_update_call_get ==
    /\ Polled /\ update_pc = "idle"
    /\ update_vacuum_path = "get"
    /\ update_pc' = "get"
    /\ IssueGet
    /\ UNCHANGED <<config, decoded, health, tasks, added_pc, attempt, cmd,
                   battery_level, last>>

\* async_get returned snapshot snap: decode, then reset the failure count
async_update_got(snap) ==
    /\ update_pc = "get"
    /\ ~update_entity_values_raises(snap)
    /\ dps' = snap
    /\ update_entity_values(snap)
    /\ update_failures' = 0
    /\ fail_streak' = 0
    /\ attr_available' = TRUE
    /\ update_pc' = "idle"
    /\ last' = "poll_ok"
    /\ UNCHANGED <<config, tasks, disabled, get_called, late_call, added_pc,
                   attempt, cmd, battery_level>>

\* async_get returned, update_entity_values raised: not a TuyaException, so
\* async_update does not catch it
async_update_decode_raised(snap) ==
    /\ update_pc = "get"
    /\ update_entity_values_raises(snap)
    /\ dps' = snap
    /\ update_entity_values(snap)
    /\ update_pc' = "idle"
    /\ last' = "poll_raise"
    /\ UNCHANGED <<config, health, tasks, disabled, get_called, late_call,
                   added_pc, attempt, cmd, battery_level>>

async_update_success == \E snap \in feed : async_update_got(snap)

async_update_raises == \E snap \in feed : async_update_decode_raised(snap)

\* Mutant of async_update_TuyaException: the threshold is one failure lower
async_update_TuyaException_early_threshold ==
    /\ update_pc = "get"
    /\ update_failures < MaxFailures
    /\ update_failures' = update_failures + 1
    /\ fail_streak' = fail_streak + 1
    /\ IF update_failures + 1 >= UPDATE_RETRIES - 1
       THEN error_code' = "CONNECTION_FAILED" /\ attr_available' = FALSE
       ELSE UNCHANGED <<error_code, attr_available>>
    /\ update_pc' = "idle"
    /\ last' = "poll_fail"
    /\ UNCHANGED <<config, tuya_state, tuyastatus, battery_level_cache, attr_mode,
                   attr_fan_speed, optional, tasks, transport, added_pc, attempt,
                   cmd, battery_level>>

\* Mutant of async_update_TuyaException: `>` for `>=` in the threshold test
async_update_TuyaException_late_threshold ==
    /\ update_pc = "get"
    /\ update_failures < MaxFailures
    /\ update_failures' = update_failures + 1
    /\ fail_streak' = fail_streak + 1
    /\ IF update_failures + 1 > UPDATE_RETRIES
       THEN error_code' = "CONNECTION_FAILED" /\ attr_available' = FALSE
       ELSE UNCHANGED <<error_code, attr_available>>
    /\ update_pc' = "idle"
    /\ last' = "poll_fail"
    /\ UNCHANGED <<config, tuya_state, tuyastatus, battery_level_cache, attr_mode,
                   attr_fan_speed, optional, tasks, transport, added_pc, attempt,
                   cmd, battery_level>>

\* async_get raised TuyaException
async_update_TuyaException ==
    /\ update_pc = "get"
    /\ update_failures < MaxFailures
    /\ update_failures' = update_failures + 1
    /\ fail_streak' = fail_streak + 1
    /\ IF update_failures + 1 >= UPDATE_RETRIES
       THEN error_code' = "CONNECTION_FAILED" /\ attr_available' = FALSE
       ELSE UNCHANGED <<error_code, attr_available>>
    /\ update_pc' = "idle"
    /\ last' = "poll_fail"
    /\ UNCHANGED <<config, tuya_state, tuyastatus, battery_level_cache, attr_mode,
                   attr_fan_speed, optional, tasks, transport, added_pc, attempt,
                   cmd, battery_level>>

----------------------------------------------------------------------------
\* Detached task: asyncio.create_task(self.async_forced_update())

\* The task runs up to its first await, or to its end when
\* async_update_vacuum returns early.
async_forced_update_start ==
    /\ forced_pending > 0
    /\ forced_pending' = forced_pending - 1
    /\ IF update_vacuum_path = "get"
       THEN /\ forced_in_get' = forced_in_get + 1
            /\ IssueGet
            /\ UNCHANGED <<error_code, last>>
       ELSE /\ error_code' = IF update_vacuum_path = "no_ip" THEN "IP_ADDRESS"
                             ELSE error_code
            /\ last' = "forced_skip"
            /\ UNCHANGED <<forced_in_get, transport>>
    /\ UNCHANGED <<config, tuya_state, tuyastatus, battery_level_cache, attr_mode,
                   attr_fan_speed, optional, health, added_pc, attempt, update_pc,
                   cmd, battery_level>>

async_forced_update_got(snap) ==
    /\ forced_in_get > 0
    /\ forced_in_get' = forced_in_get - 1
    /\ dps' = snap
    /\ update_entity_values(snap)
    /\ last' = IF update_entity_values_raises(snap) THEN "forced_raise" ELSE "forced_ok"
    /\ UNCHANGED <<config, health, forced_pending, disabled, get_called, late_call,
                   added_pc, attempt, update_pc, cmd, battery_level>>

async_forced_update_success == \E snap \in feed : async_forced_update_got(snap)

\* Mutant of async_forced_update_TuyaException: the failure is counted
async_forced_update_TuyaException_counted ==
    /\ forced_in_get > 0
    /\ update_failures < MaxFailures
    /\ forced_in_get' = forced_in_get - 1
    /\ update_failures' = update_failures + 1
    /\ last' = "forced_fail"
    /\ UNCHANGED <<config, decoded, attr_available, fail_streak, forced_pending,
                   transport, added_pc, attempt, update_pc, cmd, battery_level>>

\* async_get raised: the exception ends the task, nobody awaits it
async_forced_update_TuyaException ==
    /\ forced_in_get > 0
    /\ forced_in_get' = forced_in_get - 1
    /\ last' = "forced_fail"
    /\ UNCHANGED <<config, decoded, health, forced_pending, transport, added_pc,
                   attempt, update_pc, cmd, battery_level>>

----------------------------------------------------------------------------
\* async_added_to_hass: the startup warm-up

\* Unsupported model or missing address: unavailable, no warm-up
async_added_to_hass_unavailable ==
    /\ added_pc = "constructed"
    /\ error_code = "UNSUPPORTED_MODEL" \/ ip_address = ""
    /\ error_code' = IF error_code = "UNSUPPORTED_MODEL" THEN error_code
                     ELSE "IP_ADDRESS"
    /\ attr_available' = FALSE
    /\ added_pc' = "added"
    /\ last' = "added_unavailable"
    /\ UNCHANGED <<config, tuya_state, tuyastatus, battery_level_cache, attr_mode,
                   attr_fan_speed, optional, update_failures, fail_streak, tasks, transport,
                   attempt, update_pc, cmd, battery_level>>

\* First iteration of `for attempt in range(5)`, up to the get.  With the
\* model supported and the address set, async_update_vacuum reaches the get.
async_added_to_hass_warm_up ==
    /\ added_pc = "constructed"
    /\ error_code # "UNSUPPORTED_MODEL" /\ ip_address # ""
    /\ attempt' = 0
    /\ added_pc' = "get"
    /\ IssueGet
    /\ UNCHANGED <<config, decoded, health, tasks, update_pc, cmd, battery_level,
                   last>>

\* Mutant of warm_up_got: a successful attempt does not reset the count
warm_up_got_keeps_count(snap) ==
    /\ added_pc = "get"
    /\ dps' = snap
    /\ update_entity_values(snap)
    /\ IF update_entity_values_raises(snap)
       THEN /\ added_pc' = "sleep"
            /\ last' = "warm_raise"
            /\ UNCHANGED health
       ELSE /\ attr_available' = TRUE
            /\ added_pc' = "added"
            /\ last' = "warm_ok"
            /\ UNCHANGED <<update_failures, fail_streak>>
    /\ UNCHANGED <<config, tasks, disabled, get_called, late_call, attempt,
                   update_pc, cmd, battery_level>>

\* The attempt's get returned snapshot snap
warm_up_got(snap) ==
    /\ added_pc = "get"
    /\ dps' = snap
    /\ update_entity_values(snap)
    /\ IF update_entity_values_raises(snap)
       THEN /\ added_pc' = "sleep"
            /\ last' = "warm_raise"
            /\ UNCHANGED health
       ELSE /\ update_failures' = 0
            /\ fail_streak' = 0
            /\ attr_available' = TRUE
            /\ added_pc' = "added"
            /\ last' = "warm_ok"
    /\ UNCHANGED <<config, tasks, disabled, get_called, late_call, attempt,
                   update_pc, cmd, battery_level>>

warm_up_success == \E snap \in feed : warm_up_got(snap)

\* The attempt's get raised: `except Exception`, then asyncio.sleep(1.5)
warm_up_exception ==
    /\ added_pc = "get"
    /\ added_pc' = "sleep"
    /\ last' = "warm_fail"
    /\ UNCHANGED <<config, decoded, health, tasks, transport, attempt, update_pc,
                   cmd, battery_level>>

\* Mutant of warm_up_next_attempt: range(6), one attempt too many
warm_up_next_attempt_range_6 ==
    /\ added_pc = "sleep"
    /\ attempt + 1 < WARMUP_ATTEMPTS + 1
    /\ attempt' = attempt + 1
    /\ added_pc' = "get"
    /\ IssueGet
    /\ UNCHANGED <<config, decoded, health, tasks, update_pc, cmd, battery_level,
                   last>>

\* The sleep is over: the next attempt, or the end of the loop
warm_up_next_attempt ==
    /\ added_pc = "sleep"
    /\ attempt + 1 < WARMUP_ATTEMPTS
    /\ attempt' = attempt + 1
    /\ added_pc' = "get"
    /\ IssueGet
    /\ UNCHANGED <<config, decoded, health, tasks, update_pc, cmd, battery_level,
                   last>>

warm_up_exhausted ==
    /\ added_pc = "sleep"
    /\ attempt + 1 >= WARMUP_ATTEMPTS
    /\ attr_available' = FALSE
    /\ added_pc' = "added"
    /\ last' = "warm_exhausted"
    /\ UNCHANGED <<config, decoded, update_failures, fail_streak, tasks, transport, attempt,
                   update_pc, cmd, battery_level>>

----------------------------------------------------------------------------
\* pushed_update_handler, called by the transport when the device sent data

\* Mutant of pushed_update_handler: a push counts as a successful poll
pushed_update_handler_counts_as_poll(snap) ==
    /\ dps' = snap
    /\ update_entity_values(snap)
    /\ update_failures' = 0
    /\ attr_available' = TRUE
    /\ last' = IF update_entity_values_raises(snap) THEN "push_raise" ELSE "push"
    /\ UNCHANGED <<config, fail_streak, tasks, disabled, get_called, late_call,
                   added_pc, attempt, update_pc, cmd, battery_level>>

pushed_update_handler(snap) ==
    /\ dps' = snap
    /\ update_entity_values(snap)
    /\ last' = IF update_entity_values_raises(snap) THEN "push_raise" ELSE "push"
    /\ UNCHANGED <<config, health, tasks, disabled, get_called, late_call,
                   added_pc, attempt, update_pc, cmd, battery_level>>

\* The transport is connected (it has an address, is not disabled) and the
\* device sends a snapshot.
device_push ==
    /\ vacuum = "RoboVac" /\ ip_address # "" /\ ~disabled
    /\ added_pc # "constructed"
    /\ \E snap \in feed : pushed_update_handler(snap)

----------------------------------------------------------------------------
\* Commands

\* getFanSpeeds() of the transport, and fan_speed_map built from it
FanSpeeds == {<<"m", "a", "x">>, <<"b", "o", "o", "s", "t", "_", "i", "q">>}

fan_speed_map == [f \in {friendly_text(sp) : sp \in FanSpeeds} |->
                    CHOOSE sp \in FanSpeeds : friendly_text(sp) = f]

\* JSON and base64, as json.dumps(obj, separators=(",", ":")),
\* str.encode("utf8"), base64.b64encode and bytes.decode("utf8") compute them
\* on the objects of roomClean: text of ASCII characters only.
\* A Python value is tagged: an int, a str (its characters), a list (its
\* elements) or a dict (its items <<key, value>> in insertion order).

JInt(n) == [t |-> "int", v |-> n]
JStr(s) == [t |-> "str", v |-> s]
JList(xs) == [t |-> "list", v |-> xs]
JDict(items) == [t |-> "dict", v |-> items]

\* The printable ASCII characters, from code 32 on ("grave" stands for the
\* character of code 96)
Ascii ==
    <<" ", "!", "\"", "#", "$", "%", "&", "'", "(", ")", "*", "+", ",",
      "-", ".", "/", "0", "1", "2", "3", "4", "5", "6", "7", "8", "9", ":",
      ";", "<", "=", ">", "?", "@", "A", "B", "C", "D", "E", "F", "G", "H",
      "I", "J", "K", "L", "M", "N", "O", "P", "Q", "R", "S", "T", "U", "V",
      "W", "X", "Y", "Z", "[", "\\", "]", "^", "_", "grave", "a", "b", "c",
      "d", "e", "f", "g", "h", "i", "j", "k", "l", "m", "n", "o", "p", "q",
      "r", "s", "t", "u", "v", "w", "x", "y", "z", "{", "|", "}", "~">>

AsciiCode == [c \in {Ascii[i] : i \in 1..Len(Ascii)} |->
                31 + CHOOSE i \in 1..Len(Ascii) : Ascii[i] = c]

Ord(c) == AsciiCode[c]
Chr(n) == Ascii[n - 31]

\* str.encode("utf8") and bytes.decode("utf8") on ASCII text
Utf8Encode(s) == [i \in 1..Len(s) |-> Ord(s[i])]
Utf8Decode(b) == [i \in 1..Len(b) |-> Chr(b[i])]

\* str(n) for an int
RECURSIVE IntToChars(_)
IntToChars(n) ==
    IF n < 0 THEN <<"-">> \o IntToChars(0 - n)
    ELSE IF n < 10 THEN <<Chr(48 + n)>>
    ELSE IntToChars(n \div 10) \o <<Chr(48 + (n % 10))>>

RECURSIVE json_dumps(_)
RECURSIVE DumpElements(_)
RECURSIVE DumpItems(_)
DumpElements(xs) ==
    IF xs = <<>> THEN <<>>
    ELSE IF Len(xs) = 1 THEN json_dumps(xs[1])
    ELSE json_dumps(xs[1]) \o <<",">> \o DumpElements(Tail(xs))

DumpItems(items) ==
    IF items = <<>> THEN <<>>
    ELSE LET item == <<"\"">> \o items[1][1] \o <<"\"", ":">> \o json_dumps(items[1][2])
         IN IF Len(items) = 1 THEN item
            ELSE item \o <<",">> \o DumpItems(Tail(items))

json_dumps(x) ==
    CASE x.t = "int" -> IntToChars(x.v)
      [] x.t = "str" -> <<"\"">> \o x.v \o <<"\"">>
      [] x.t = "list" -> <<"[">> \o DumpElements(x.v) \o <<"]">>
      [] x.t = "dict" -> <<"{">> \o DumpItems(x.v) \o <<"}">>

Base64Alphabet ==
    <<"A", "B", "C", "D", "E", "F", "G", "H", "I", "J", "K", "L", "M", "N",
      "O", "P", "Q", "R", "S", "T", "U", "V", "W", "X", "Y", "Z", "a", "b",
      "c", "d", "e", "f", "g", "h", "i", "j", "k", "l", "m", "n", "o", "p",
      "q", "r", "s", "t", "u", "v", "w", "x", "y", "z", "0", "1", "2", "3",
      "4", "5", "6", "7", "8", "9", "+", "/">>

\* The base64 text of a sequence of bytes: three bytes give four characters,
\* the last group is padded with "="
RECURSIVE Base64Chars(_)
Base64Chars(b) ==
    IF b = <<>> THEN <<>>
    ELSE LET n == Len(b)
             v == b[1] * 65536 + (IF n >= 2 THEN b[2] * 256 ELSE 0)
                    + (IF n >= 3 THEN b[3] ELSE 0)
         IN << Base64Alphabet[(v \div 262144) + 1],
               Base64Alphabet[((v \div 4096) % 64) + 1],
               IF n >= 2 THEN Base64Alphabet[((v \div 64) % 64) + 1] ELSE "=",
               IF n >= 3 THEN Base64Alphabet[(v % 64) + 1] ELSE "=" >>
            \o Base64Chars(SubSeq(b, 4, n))

\* base64.b64encode: bytes in, the bytes of the base64 text out
b64encode(b) == Utf8Encode(Base64Chars(b))

Write(key, value) == [key |-> key, value |-> value]

\* round(time.time() * 1000)
Clock == {1000}

\* A list of ints as a Python value
IntList(xs) == JList([i \in 1..Len(xs) |-> JInt(xs[i])])

\* Mutant of RoomCleanCall: the timestamp is the first key
RoomCleanCall_timestamp_first(params, now) ==
    JDict(<< <<<<"t", "i", "m", "e", "s", "t", "a", "m", "p">>,
               JInt(now)>>,
             <<<<"m", "e", "t", "h", "o", "d">>,
               JStr(<<"s", "e", "l", "e", "c", "t", "R", "o", "o", "m", "s">>
                    \o <<"C", "l", "e", "a", "n">>)>>,
             <<<<"d", "a", "t", "a">>,
               JDict(<< <<<<"r", "o", "o", "m", "I", "d", "s">>,
                          IntList(GetOr(params, "roomIds", <<1>>))>>,
                        <<<<"c", "l", "e", "a", "n", "T", "i", "m", "e", "s">>,
                          JInt(GetOr(params, "count", 1))>> >>)>> >>)

\* method_call of roomClean
RoomCleanCall(params, now) ==
    JDict(<< <<<<"m", "e", "t", "h", "o", "d">>,
               JStr(<<"s", "e", "l", "e", "c", "t", "R", "o", "o", "m", "s">>
                    \o <<"C", "l", "e", "a", "n">>)>>,
             <<<<"d", "a", "t", "a">>,
               JDict(<< <<<<"r", "o", "o", "m", "I", "d", "s">>,
                          IntList(GetOr(params, "roomIds", <<1>>))>>,
                        <<<<"c", "l", "e", "a", "n", "T", "i", "m", "e", "s">>,
                          JInt(GetOr(params, "count", 1))>> >>)>>,
             <<<<"t", "i", "m", "e", "s", "t", "a", "m", "p">>,
               JInt(now)>> >>)

\* base64_str of roomClean
RoomCleanValue(params, now) ==
    Utf8Decode(b64encode(Utf8Encode(json_dumps(RoomCleanCall(params, now)))))

\* Mutant of DoNotDisturbWrites: the boolean is written before the window
DoNotDisturbWrites_boolean_first ==
    IF Truthy(attr_do_not_disturb)
    THEN <<Write("107", "False"), Write("139", "MEQ4MDAwMDAw")>>
    ELSE <<Write("107", "True"), Write("139", "MTAwMDAwMDAw")>>

\* The two writes of doNotDisturb
DoNotDisturbWrites ==
    IF Truthy(attr_do_not_disturb)
    THEN <<Write("139", "MEQ4MDAwMDAw"), Write("107", "False")>>
    ELSE <<Write("139", "MTAwMDAwMDAw"), Write("107", "True")>>

\* Handler invocations: the entity services and async_send_command with its
\* command and params
ParamChoices ==
    {EmptyDict,
     ("roomIds" :> <<1, 2>>) @@ ("count" :> 2),
     "roomIds" :> <<3>>,
     "count" :> 12}

Invocations ==
    [name : {"locate", "return_to_base", "start", "pause", "stop", "clean_spot"},
     arg : {<<>>}, params : {EmptyDict}]
    \cup [name : {"set_fan_speed"},
          arg : {<<"B", "o", "o", "s", "t", " ", "I", "q">>, <<"T", "u", "r", "b", "o">>},
          params : {EmptyDict}]
    \cup [name : {"edgeClean", "smallRoomClean", "autoClean", "autoReturn",
                  "doNotDisturb", "boostIQ"},
          arg : {<<>>}, params : {EmptyDict}]
    \cup [name : {"153"}, arg : {<<>>}, params : {"value" :> "on"}]

\* async_send_command with the commands that encode state or parameters
SendCommandClock == {1000, 2500}

SendCommandInvocations ==
    [name : {"autoReturn", "doNotDisturb", "boostIQ"}, arg : {<<>>},
     params : {EmptyDict}]
    \cup [name : {"roomClean"}, arg : {<<>>}, params : ParamChoices]
    \cup [name : {"153"}, arg : {<<>>}, params : {EmptyDict}]

\* The handler raises before its first write: no transport (unsupported
\* model) or a fan speed that is not in fan_speed_map
RaisesBeforeWrite(inv) ==
    \/ vacuum = "None"
    \/ inv.name = "set_fan_speed" /\ inv.arg \notin DOMAIN fan_speed_map

\* The writes of a handler, in order; every value is computed before the
\* first await
Writes(inv, now) ==
    CASE inv.name = "locate" ->
            <<Write("LOCATE", IF Truthy(Get(tuyastatus, "LOCATE")) THEN "False" ELSE "True")>>
      [] inv.name \in {"return_to_base", "stop"} -> <<Write("MODE", "AggG")>>
      [] inv.name = "start" -> <<Write("MODE", "BBoCCAE=")>>
      [] inv.name = "pause" -> <<Write("MODE", "AggN")>>
      [] inv.name = "clean_spot" -> <<Write("MODE", "Spot")>>
      [] inv.name = "set_fan_speed" -> <<Write("FAN_SPEED", fan_speed_map[inv.arg])>>
      [] inv.name = "edgeClean" -> <<Write("5", "Edge")>>
      [] inv.name = "smallRoomClean" -> <<Write("5", "SmallRoom")>>
      [] inv.name = "autoClean" -> <<Write("152", "BBoCCAE=")>>
      [] inv.name = "autoReturn" ->
            <<Write("135", IF Truthy(attr_auto_return) THEN "False" ELSE "True")>>
      [] inv.name = "doNotDisturb" -> DoNotDisturbWrites
      [] inv.name = "boostIQ" ->
            <<Write("118", IF Truthy(attr_boost_iq) THEN "False" ELSE "True")>>
      [] inv.name = "roomClean" -> <<Write("124", RoomCleanValue(inv.params, now))>>
      [] OTHER -> <<Write(inv.name, GetOr(inv.params, "value", ""))>>

\* create_task calls a handler makes once its writes are done: async_stop
\* awaits async_return_to_base, which makes one, and then makes its own
Spawns(name) == IF name = "stop" THEN 2 ELSE 1

CommandIdle == cmd.pc # "set"

\* A handler is called, once the entity has been added, and runs up to its
\* first await.  One handler runs at a time.
handler_entry(inv, now) ==
    /\ added_pc = "added"
    /\ CommandIdle
    /\ forced_pending + forced_in_get + Spawns(inv.name) <= MaxTasks
    /\ cmd' = IF RaisesBeforeWrite(inv)
              THEN [name |-> inv.name, params |-> inv.params, pc |-> "raised",
                    pending |-> <<>>, issued |-> <<>>, done |-> <<>>,
                    spawned |-> 0]
              ELSE [name |-> inv.name, params |-> inv.params, pc |-> "set",
                    pending |-> Writes(inv, now),
                    issued |-> <<Head(Writes(inv, now))>>, done |-> <<>>,
                    spawned |-> 0]
    /\ UNCHANGED <<config, decoded, health, tasks, transport, added_pc, attempt,
                   update_pc, battery_level, last>>

command_invoke ==
    \E inv \in Invocations, now \in Clock : handler_entry(inv, now)

async_send_command_invoke ==
    \E inv \in SendCommandInvocations, now \in SendCommandClock :
        handler_entry(inv, now)

\* vacuum.async_set returned: the next write, or the create_task calls and
\* the return
command_set_done ==
    /\ cmd.pc = "set"
    /\ LET rest == Tail(cmd.pending)
           n == IF rest = <<>> THEN Spawns(cmd.name) ELSE 0
       IN /\ cmd' = [cmd EXCEPT !.pending = rest,
                                !.issued = IF rest = <<>> THEN cmd.issued
                                           ELSE Append(cmd.issued, Head(rest)),
                                !.done = Append(cmd.done, Head(cmd.pending)),
                                !.spawned = n,
                                !.pc = IF rest = <<>> THEN "returned" ELSE "set"]
          /\ forced_pending' = forced_pending + n
          /\ late_call' = (late_call \/ (rest # <<>> /\ disabled))
    /\ UNCHANGED <<config, decoded, health, forced_in_get, dps, disabled,
                   get_called, added_pc, attempt, update_pc, battery_level, last>>

\* vacuum.async_set raised TuyaException: no handler catches it
command_set_TuyaException ==
    /\ cmd.pc = "set"
    /\ cmd' = [cmd EXCEPT !.pc = "raised"]
    /\ UNCHANGED <<config, decoded, health, tasks, transport, added_pc, attempt,
                   update_pc, battery_level, last>>

----------------------------------------------------------------------------
\* async_will_remove_from_hass.  Nothing is cancelled or awaited: a handler
\* may be waiting for its write, and detached tasks may be pending.
async_will_remove_from_hass ==
    /\ added_pc = "added"
    /\ update_pc = "idle"
    /\ added_pc' = "removed"
    /\ disabled' = (error_code # "UNSUPPORTED_MODEL" /\ vacuum # "None")
    /\ UNCHANGED <<config, decoded, health, tasks, dps, get_called, late_call,
                   attempt, update_pc, cmd, battery_level, last>>

\* RobovacBatterySensor.update
sensor_update ==
    /\ added_pc # "removed"
    /\ battery_level' = battery_level_cache
    /\ last' = "sensor_update"
    /\ UNCHANGED <<config, decoded, health, tasks, transport, added_pc, attempt,
                   update_pc, cmd>>

----------------------------------------------------------------------------
Next ==
    \/ async_added_to_hass_unavailable
    \/ async_added_to_hass_warm_up
    \/ warm_up_success
    \/ warm_up_exception
    \/ warm_up_next_attempt
    \/ warm_up_exhausted
    \/ async_update_no_get
    \/ async_update_call_get
    \/ async_update_success
    \/ async_update_raises
    \/ async_update_TuyaException
    \/ async_forced_update_start
    \/ async_forced_update_success
    \/ async_forced_update_TuyaException
    \/ device_push
    \/ command_invoke
    \/ command_set_done
    \/ command_set_TuyaException
    \/ async_will_remove_from_hass

Spec == Init /\ [][Next]_vars

----------------------------------------------------------------------------
\* Decoding and deriving over the whole status and error tables: in each run
\* the device holds one snapshot, drawn from every status code of the table,
\* an unknown one and none, with every kind of error code, and the entity is
\* added, polled and pushed to.

StatusParts ==
    {EmptyDict} \cup {"STATUS" :> w : w \in DOMAIN TUYA_STATUS_MAPPING \cup {"ZZZZ"}}

ErrorParts ==
    {EmptyDict} \cup {"ERROR" :> w : w \in {"DAiI6suO9dXszgFSAA==",
                                            "FAj+nMu7zuPszgEaAtg2UgQSAtg2", "ZZZZ"}}

OtherParts ==
    {"BATTERY" :> <<"7">>,
     ("BATTERY" :> <<"8", "5">>) @@ ("MODE" :> "AggO")
        @@ ("FAN_SPEED" :> <<"m", "a", "x">>) @@ ("CLEANING_AREA" :> "12")
        @@ ("AUTO_RETURN" :> "True")
        @@ ("CONSUMABLES" :> "eyJjb25zdW1hYmxlIjp7ImR1cmF0aW9uIjo5MH19"),
     ("BATTERY" :> <<"a", "b", "c">>) @@ ("CONSUMABLES" :> "MTI=")}

TableSnapshots ==
    {st @@ er @@ ot : st \in StatusParts, er \in ErrorParts, ot \in OtherParts}

InitTables == InitEntity /\ dps = EmptyDict /\ feed \in {{snap} : snap \in TableSnapshots}

NextTables ==
    \/ async_added_to_hass_unavailable
    \/ async_added_to_hass_warm_up
    \/ warm_up_success
    \/ warm_up_exception
    \/ warm_up_next_attempt
    \/ warm_up_exhausted
    \/ async_update_no_get
    \/ async_update_call_get
    \/ async_update_success
    \/ async_update_raises
    \/ async_update_TuyaException
    \/ device_push

SpecTables == InitTables /\ [][NextTables]_vars

----------------------------------------------------------------------------
\* The command encoder: a device with model and address, every
\* parameterisation of the commands that read state or take parameters, on
\* every known value of the do-not-disturb, auto-return and boost-IQ fields.

SnapCleaning ==
    ("STATUS" :> "BgoAEAUyAA==") @@ ("ERROR" :> "DAiI6suO9dXszgFSAA==")
    @@ ("BATTERY" :> <<"4", "0">>) @@ ("AUTO_RETURN" :> "False")
    @@ ("DO_NOT_DISTURB" :> "False") @@ ("BOOST_IQ" :> "False")

InitCommands ==
    /\ InitEntity
    /\ vacuum = "RoboVac" /\ ip_address # ""
    /\ dps = EmptyDict
    /\ feed = {SnapDocked, SnapCleaning}

NextCommands ==
    \/ async_added_to_hass_warm_up
    \/ warm_up_success
    \/ warm_up_exception
    \/ warm_up_next_attempt
    \/ warm_up_exhausted
    \/ device_push
    \/ async_send_command_invoke
    \/ command_set_done
    \/ command_set_TuyaException
    \/ async_forced_update_start
    \/ async_forced_update_success
    \/ async_forced_update_TuyaException

SpecCommands == InitCommands /\ [][NextCommands]_vars

----------------------------------------------------------------------------
\* The battery cache and its sensor: a device with model and address whose
\* battery data point is a number, a text that is no number, empty or absent
\* from one snapshot to the next, read by the sensor at any time.

BatteryParts ==
    {EmptyDict} \cup {"BATTERY" :> raw : raw \in {<<"8", "5">>, <<"7">>,
                                                 <<"1", "0", "0">>,
                                                 <<"a", "b", "c">>, <<>>}}

BatterySnapshots ==
    {("STATUS" :> "BBADGgA=") @@ ("ERROR" :> "DAiI6suO9dXszgFSAA==") @@ b :
        b \in BatteryParts}
    \cup {("STATUS" :> "BBADGgA=") @@ ("BATTERY" :> <<"6", "0">>)
             @@ ("CONSUMABLES" :> "bm90IGEgbGl0ZXJhbA==")}

InitBattery ==
    /\ InitEntity
    /\ vacuum = "RoboVac" /\ ip_address # ""
    /\ dps = EmptyDict
    /\ feed = BatterySnapshots

NextBattery ==
    \/ async_added_to_hass_warm_up
    \/ warm_up_success
    \/ warm_up_exception
    \/ warm_up_next_attempt
    \/ warm_up_exhausted
    \/ async_update_call_get
    \/ async_update_success
    \/ async_update_raises
    \/ async_update_TuyaException
    \/ device_push
    \/ sensor_update

SpecBattery == InitBattery /\ [][NextBattery]_vars

----------------------------------------------------------------------------
\* Properties

\* The error field holds something other than the no-error values
ErrorSet == error_code \notin {None, "no_error", "0"}

\* C1: three consecutive scheduled polls whose get fails with TuyaException,
\* counted from the last successful refresh, leave the device unavailable with
\* error CONNECTION_FAILED; a successful poll sets the failure count to 0, and
\* the count always equals the number of polls failed since the last success.
C1_ThreeFailuresThenUnavailable ==
    /\ (last = "poll_fail" /\ fail_streak >= UPDATE_RETRIES)
          => (~attr_available /\ error_code = "CONNECTION_FAILED")
    /\ last = "poll_ok" => (update_failures = 0 /\ fail_streak = 0)
    /\ update_failures = fail_streak

C1_Witness ==
    /\ last = "poll_fail" /\ fail_streak = UPDATE_RETRIES
    /\ ~attr_available /\ error_code = "CONNECTION_FAILED"
    /\ tuya_state = "Charging"

\* C2 (as claimed): an unavailable device becomes available only in a step
\* that decodes a snapshot, and a successful decode by a scheduled poll, a
\* warm-up attempt or a command's forced refresh makes it available with the
\* failure count 0.
C2_AvailableAgainOnAnyDecode ==
    [][/\ (~attr_available /\ attr_available')
             => last' \in {"poll_ok", "warm_ok", "forced_ok", "push"}
       /\ (~attr_available /\ forced_in_get' < forced_in_get /\ last' = "forced_ok")
             => (attr_available' /\ update_failures' = 0)
       /\ (~attr_available /\ update_pc = "get" /\ last' = "poll_ok")
             => (attr_available' /\ update_failures' = 0)
       /\ (~attr_available /\ added_pc = "get" /\ added_pc' = "added")
             => (attr_available' /\ update_failures' = 0)]_vars

\* C3 (as claimed): a device whose model is unsupported or whose address is
\* missing is unavailable from the end of async_added_to_hass on.
C3_StaysUnavailable ==
    (added_pc \in {"added", "removed"} /\ (vacuum = "None" \/ ip_address = ""))
        => ~attr_available

\* C4: no get is ever issued on the transport of a device whose model is
\* unsupported or whose address is missing.
C4_NoGetWithoutModelOrAddress ==
    (vacuum = "None" \/ ip_address = "") => ~get_called

\* A device without address on which a scheduled poll (it is available again)
\* and a command's forced refresh have run
C4_Witness ==
    /\ vacuum = "RoboVac" /\ ip_address = ""
    /\ last = "forced_skip" /\ attr_available
    /\ ~get_called

\* C5: the warm-up makes at most WARMUP_ATTEMPTS attempts; the first that
\* succeeds ends it with the device available and the failure count 0; when
\* every attempt failed it ends (async_added_to_hass returns) with the device
\* unavailable.
C5_WarmUpBounded ==
    /\ attempt < WARMUP_ATTEMPTS
    /\ last = "warm_ok"
          => (added_pc \in {"added", "removed"} /\ attr_available
              /\ update_failures = 0)
    /\ last = "warm_exhausted"
          => (added_pc \in {"added", "removed"} /\ attempt = WARMUP_ATTEMPTS - 1
              /\ ~attr_available)

C5_Witness ==
    /\ last = "warm_exhausted" /\ attempt = WARMUP_ATTEMPTS - 1
    /\ added_pc = "added" /\ ~attr_available

ClaimedActivity(code) ==
    CASE code \in {"CHARGING", "COMPLETED"} -> "DOCKED"
      [] code = "GOING_TO_CHARGE" -> "RETURNING"
      [] code \in {"SLEEPING", "STANDBY"} -> "IDLE"
      [] code \in {"PAUSE", "ROOM_PAUSE", "SPOT_PAUSE"} -> "PAUSED"
      [] OTHER -> "CLEANING"

\* C7 (as claimed): once a snapshot whose status code is in the table has been
\* decoded and no error is set, the activity is the one the claim gives for
\* that code, PAUSED for each of the three paused statuses.
C7_ActivityOfEveryTableCode ==
    ("STATUS" \in DOMAIN tuyastatus /\ tuyastatus["STATUS"] \in DOMAIN TUYA_STATUS_MAPPING
        /\ ~ErrorSet)
        => activity = ClaimedActivity(TUYA_STATUS_MAPPING[tuyastatus["STATUS"]])

\* C8 (as claimed): once a snapshot whose status code is present but not in
\* the table has been decoded and no error is set, the activity is CLEANING,
\* and a decoded status is never treated as the cold start.
C8_UnknownStatusIsCleaning ==
    /\ ("STATUS" \in DOMAIN tuyastatus
           /\ tuyastatus["STATUS"] \notin DOMAIN TUYA_STATUS_MAPPING /\ ~ErrorSet)
          => activity = "CLEANING"
    /\ "STATUS" \in DOMAIN tuyastatus => tuya_state # None

\* C9: an optional field whose capability bit is unset keeps its initial
\* unset value in every reachable state.
C9_UngatedFieldsStayUnset ==
    /\ "CLEANING_AREA" \notin robovac_supported => attr_cleaning_area = None
    /\ "CLEANING_TIME" \notin robovac_supported => attr_cleaning_time = None
    /\ "AUTO_RETURN" \notin robovac_supported => attr_auto_return = None
    /\ "DO_NOT_DISTURB" \notin robovac_supported => attr_do_not_disturb = None
    /\ "BOOST_IQ" \notin robovac_supported => attr_boost_iq = None
    /\ "CONSUMABLES" \notin robovac_supported => attr_consumables = None

\* A forced refresh has decoded a snapshot that carries every optional data
\* point, with only the auto-return bit set
C9_Witness ==
    /\ robovac_supported = {"AUTO_RETURN"}
    /\ last = "forced_ok" /\ tuyastatus = SnapDocked
    /\ attr_auto_return = "True"
    /\ attr_cleaning_area = None /\ attr_consumables = None

\* C10 (as claimed): a handler whose writes all succeeded has made exactly one
\* create_task call when it returns.
C10_ExactlyOneForcedRefresh == cmd.pc = "returned" => cmd.spawned = 1

\* C11 (as claimed): a handler whose write failed on the transport returns
\* normally; the failure does not leave the handler.  (A handler that raised
\* with a write still pending raised out of vacuum.async_set.)
C11_SetFailureCaught == ~(cmd.pc = "raised" /\ cmd.pending # <<>>)

\* The consumables data point of the decoded snapshot is present, its
\* capability bit is set and it cannot be decoded
MalformedConsumables ==
    /\ "CONSUMABLES" \in robovac_supported
    /\ Truthy(Get(tuyastatus, "CONSUMABLES"))
    /\ ConsumablesDecode(tuyastatus["CONSUMABLES"]).raises

RaiseOutcomes == {"poll_raise", "forced_raise", "warm_raise", "push_raise"}

\* C12 (as claimed): no decode raises, and a scheduled poll that decoded a
\* snapshot with a malformed consumables blob counts as a success: the failure
\* count is 0 and the device is available.
C12_MalformedConsumablesSwallowed ==
    /\ last \notin RaiseOutcomes
    /\ (last \in {"poll_ok", "poll_raise"} /\ MalformedConsumables)
          => (update_failures = 0 /\ attr_available)

\* A step of pushed_update_handler: it ends as a push does, and no coroutine,
\* task or handler has moved
PushStep ==
    /\ last' \in {"push", "push_raise"}
    /\ UNCHANGED <<added_pc, update_pc, tasks, cmd, disabled>>

\* C13: a push decodes the transport's current snapshot into the device state
\* and leaves the failure count and the availability flag as they were.
C13_PushLeavesHealthAlone ==
    [][PushStep =>
          /\ attr_available' = attr_available
          /\ update_failures' = update_failures
          /\ tuyastatus' = dps'
          /\ tuya_state' = Get(STATUS_MAPPING,
                               Get(TUYA_STATUS_MAPPING, Get(dps', "STATUS")))
          /\ battery_level_cache' = ParseBattery(dps')]_vars

\* A push was decoded while the device was unavailable after three failed
\* polls
C13_Witness ==
    /\ last = "push" /\ tuya_state = "Charging"
    /\ ~attr_available /\ update_failures = UPDATE_RETRIES

\* C17: a scheduled poll that fails on an available device whose error is not
\* CONNECTION_FAILED, and brings the failure count to less than
\* UPDATE_RETRIES, leaves the device available and the error as it was, and
\* adds one to the count.
C17_BelowThresholdNothingVisible ==
    [][(/\ update_pc = "get" /\ last' = "poll_fail"
        /\ update_failures' # update_failures
        /\ attr_available /\ error_code # "CONNECTION_FAILED"
        /\ update_failures' < UPDATE_RETRIES)
          => /\ attr_available'
             /\ error_code' = error_code
             /\ tuya_state' = tuya_state
             /\ update_failures' = update_failures + 1]_vars

\* Two polls in a row have failed on a device that was healthy
C17_Witness ==
    /\ last = "poll_fail" /\ fail_streak = UPDATE_RETRIES - 1
    /\ update_failures = UPDATE_RETRIES - 1
    /\ attr_available /\ error_code = "no_error" /\ tuya_state = "Charging"

\* C18 (as claimed): from the third failed poll until the next successful
\* scheduled poll (the failure count is at the threshold and the device is
\* unavailable) the error stays CONNECTION_FAILED.
C18_ClassificationStays ==
    (~attr_available /\ update_failures >= UPDATE_RETRIES)
        => error_code = "CONNECTION_FAILED"

\* C20 (as claimed): a decode that raises leaves every field of the device
\* state as it was before the attempt.
C20_FailedDecodeChangesNothing ==
    [][last' \in RaiseOutcomes =>
          UNCHANGED <<tuya_state, error_code, attr_mode, attr_fan_speed,
                      battery_level_cache, optional>>]_vars

\* C19 (as claimed): once async_will_remove_from_hass has called
\* async_disable, no get and no set is issued on the transport.
C19_DisableIsFinalCall == ~late_call

\* The time-window blobs of do-not-disturb
DndDisabled == "MEQ4MDAwMDAw"
DndDefaultWindow == "MTAwMDAwMDAw"

\* C14: doNotDisturb hands two writes to the transport, the window on key 139
\* and then the boolean on key 107; the boolean is the negation of the value
\* of do-not-disturb known when the handler is entered, and the window is the
\* disabled blob when turning off, the default window when turning on; the
\* second write is handed over only once the first has returned, and a
\* handler that returned has made both.
C14_DoNotDisturbTwoWrites ==
    /\ [][(cmd'.name = "doNotDisturb" /\ cmd' # cmd /\ cmd'.done = <<>>
              /\ cmd'.pc = "set")
           => /\ cmd'.issued = <<Write("139", IF Truthy(attr_do_not_disturb)
                                             THEN DndDisabled
                                             ELSE DndDefaultWindow)>>
              /\ cmd'.pending = cmd'.issued
                    \o <<Write("107", IF Truthy(attr_do_not_disturb)
                                      THEN "False" ELSE "True")>>]_vars
    /\ [](cmd.name = "doNotDisturb" =>
            /\ Len(cmd.issued) <= 2
            /\ Len(cmd.issued) = 2 =>
                  /\ cmd.issued[1].key = "139" /\ cmd.issued[2].key = "107"
                  /\ Len(cmd.done) >= 1 /\ cmd.done[1] = cmd.issued[1]
            /\ cmd.pc = "returned" => cmd.done = cmd.issued /\ Len(cmd.done) = 2)

\* do-not-disturb was known to be off and has been turned on by both writes
C14_Witness ==
    /\ cmd.name = "doNotDisturb" /\ cmd.pc = "returned"
    /\ cmd.done = <<Write("139", DndDefaultWindow), Write("107", "True")>>
    /\ attr_do_not_disturb = "False"

\* Reading a written value back: base64.b64decode, bytes.decode and
\* json.loads, the inverse conversions, on the text json_dumps can produce
Base64Index == [c \in {Base64Alphabet[i] : i \in 1..Len(Base64Alphabet)} |->
                  (CHOOSE i \in 1..Len(Base64Alphabet) : Base64Alphabet[i] = c) - 1]

RECURSIVE b64decode(_)
b64decode(s) ==
    IF Len(s) < 4 THEN <<>>
    ELSE LET ix(k) == IF s[k] = "=" THEN 0 ELSE Base64Index[s[k]]
             v == ix(1) * 262144 + ix(2) * 4096 + ix(3) * 64 + ix(4)
             keep == IF s[3] = "=" THEN 1 ELSE IF s[4] = "=" THEN 2 ELSE 3
         IN SubSeq(<<v \div 65536, (v \div 256) % 256, v % 256>>, 1, keep)
            \o b64decode(SubSeq(s, 5, Len(s)))

\* Each parser returns the value read and the text left
RECURSIVE ParseString(_, _)
ParseString(s, acc) ==
    IF Head(s) = "\"" THEN [v |-> acc, rest |-> Tail(s)]
    ELSE ParseString(Tail(s), Append(acc, Head(s)))

RECURSIVE ParseNumber(_, _)
ParseNumber(s, acc) ==
    IF s # <<>> /\ Head(s) \in Digits
    THEN ParseNumber(Tail(s), Append(acc, Head(s)))
    ELSE [v |-> JInt(DecimalValue(acc)), rest |-> s]

RECURSIVE ParseValue(_)
RECURSIVE ParseElements(_, _)
RECURSIVE ParseItems(_, _)
ParseElements(s, acc) ==
    IF Head(s) = "]" THEN [v |-> JList(acc), rest |-> Tail(s)]
    ELSE IF Head(s) = "," THEN ParseElements(Tail(s), acc)
    ELSE LET e == ParseValue(s) IN ParseElements(e.rest, Append(acc, e.v))

ParseItems(s, acc) ==
    IF Head(s) = "}" THEN [v |-> JDict(acc), rest |-> Tail(s)]
    ELSE IF Head(s) = "," THEN ParseItems(Tail(s), acc)
    ELSE LET k == ParseString(Tail(s), <<>>)
             e == ParseValue(Tail(k.rest))
         IN ParseItems(e.rest, Append(acc, <<k.v, e.v>>))

ParseValue(s) ==
    CASE Head(s) = "{" -> ParseItems(Tail(s), <<>>)
      [] Head(s) = "[" -> ParseElements(Tail(s), <<>>)
      [] Head(s) = "\"" -> LET r == ParseString(Tail(s), <<>>)
                           IN [v |-> JStr(r.v), rest |-> r.rest]
      [] OTHER -> ParseNumber(s, <<>>)

json_loads(s) == ParseValue(s).v

\* C15: roomClean hands exactly one write to the transport, on key 124; its
\* value, base64-decoded and parsed as JSON, is an object of three keys in the
\* order method, data, timestamp; method is "selectRoomsClean" and data is
\* the object of roomIds and cleanTimes, in this order, holding the roomIds
\* and count of the call, [1] and 1 when omitted.
C15_RoomCleanRoundTrip ==
    (cmd.name = "roomClean" /\ cmd.pc \in {"set", "returned"}) =>
        /\ Len(cmd.issued) = 1
        /\ cmd.pending \o cmd.done = cmd.issued
        /\ cmd.issued[1].key = "124"
        /\ LET obj == json_loads(Utf8Decode(b64decode(cmd.issued[1].value)))
               roomIds == IF "roomIds" \in DOMAIN cmd.params
                          THEN cmd.params["roomIds"] ELSE <<1>>
               count == IF "count" \in DOMAIN cmd.params
                        THEN cmd.params["count"] ELSE 1
           IN /\ obj.t = "dict" /\ Len(obj.v) = 3
              /\ obj.v[1][1] = <<"m", "e", "t", "h", "o", "d">>
              /\ obj.v[1][2] = JStr(<<"s", "e", "l", "e", "c", "t", "R", "o", "o", "m", "s">>
                                    \o <<"C", "l", "e", "a", "n">>)
              /\ obj.v[2][1] = <<"d", "a", "t", "a">>
              /\ obj.v[2][2].t = "dict" /\ Len(obj.v[2][2].v) = 2
              /\ obj.v[2][2].v[1][1] = <<"r", "o", "o", "m", "I", "d", "s">>
              /\ obj.v[2][2].v[1][2].t = "list"
              /\ Len(obj.v[2][2].v[1][2].v) = Len(roomIds)
              /\ \A i \in 1..Len(roomIds) :
                    obj.v[2][2].v[1][2].v[i] = JInt(roomIds[i])
              /\ obj.v[2][2].v[2][1] = <<"c", "l", "e", "a", "n", "T", "i", "m", "e", "s">>
              /\ obj.v[2][2].v[2][2] = JInt(count)
              /\ obj.v[3][1] = <<"t", "i", "m", "e", "s", "t", "a", "m", "p">>
              /\ obj.v[3][2].t = "int"

\* roomClean with roomIds [1, 2] and count 2 has returned
C15_Witness ==
    /\ cmd.name = "roomClean" /\ cmd.pc = "returned"
    /\ cmd.params = ("roomIds" :> <<1, 2>>) @@ ("count" :> 2)
    /\ Len(cmd.done) = 1 /\ cmd.done[1].key = "124"

\* roomClean without parameters has returned
C15_WitnessDefaults ==
    /\ cmd.name = "roomClean" /\ cmd.pc = "returned"
    /\ cmd.params = EmptyDict /\ Len(cmd.done) = 1

\* The battery data point of the decoded snapshot is a number
NumericBattery ==
    /\ "BATTERY" \in DOMAIN tuyastatus
    /\ tuyastatus["BATTERY"] # <<>>
    /\ \A i \in 1..Len(tuyastatus["BATTERY"]) : tuyastatus["BATTERY"][i] \in Digits

\* C16: once a snapshot has been decoded, the battery cache holds the integer
\* whose decimal text is the battery data point when that is a number, and is
\* unknown when it is absent or no number, whatever it held before; a decode
\* raises only over the consumables blob, never over the battery; and the
\* sensor shows the cache as it was when the sensor last read it.
C16_BatteryParsedOrUnknown ==
    /\ tuyastatus # EmptyDict =>
          IF NumericBattery
          THEN \E n \in battery_level_cache :
                  /\ battery_level_cache = {n}
                  /\ IntToChars(n) = tuyastatus["BATTERY"]
          ELSE battery_level_cache = {}
    /\ last \in RaiseOutcomes => MalformedConsumables
    /\ last = "sensor_update" => battery_level = battery_level_cache

\* The sensor has read 85; a later decode of a battery value that is no
\* number has made the cache unknown
C16_Witness ==
    /\ battery_level = {85}
    /\ last \in {"poll_ok", "push"}
    /\ "BATTERY" \in DOMAIN tuyastatus
    /\ tuyastatus["BATTERY"] = <<"a", "b", "c">>
    /\ battery_level_cache = {}

\* C21: whatever refreshes are in flight, once a snapshot has been decoded
\* every decoded field of the device state comes from one and the same
\* snapshot, the one decoded last: no state mixes the fields of two decodes.
\* (The error field may since hold the connection-failure classification, and
\* the consumables field keeps its value when the snapshot gives none.)
C21_FieldsOfOneSnapshot ==
    tuyastatus # EmptyDict =>
        /\ tuya_state = Get(STATUS_MAPPING,
                            Get(TUYA_STATUS_MAPPING, Get(tuyastatus, "STATUS")))
        /\ error_code \in {Get(ERROR_MAPPING, Get(tuyastatus, "ERROR")),
                           "CONNECTION_FAILED"}
        /\ attr_mode = Get(tuyastatus, "MODE")
        /\ attr_fan_speed = friendly_text(GetOr(tuyastatus, "FAN_SPEED", <<>>))
        /\ battery_level_cache = ParseBattery(tuyastatus)
        /\ \A bit \in Features \ {"CONSUMABLES"} :
              LET field == CASE bit = "CLEANING_AREA" -> attr_cleaning_area
                             [] bit = "CLEANING_TIME" -> attr_cleaning_time
                             [] bit = "AUTO_RETURN" -> attr_auto_return
                             [] bit = "DO_NOT_DISTURB" -> attr_do_not_disturb
                             [] bit = "BOOST_IQ" -> attr_boost_iq
              IN field = IF bit \in robovac_supported
                         THEN Get(tuyastatus, bit) ELSE None

\* A scheduled poll has decoded the fault snapshot while the forced refresh
\* of a returned command is waiting for its get
C21_Witness ==
    /\ last = "poll_ok" /\ forced_in_get >= 1 /\ cmd.pc = "returned"
    /\ tuyastatus = SnapFault /\ dps = SnapFault
    /\ attr_mode = None /\ attr_auto_return = "False"

\* C22: a failure count of UPDATE_RETRIES or more implies that the device is
\* unavailable.
C22_CountAtThresholdUnavailable ==
    update_failures >= UPDATE_RETRIES => ~attr_available

\* Three polls have failed, and since then a command has returned and its
\* forced refresh has decoded a snapshot
C22_Witness ==
    /\ update_failures >= UPDATE_RETRIES /\ ~attr_available
    /\ cmd.pc = "returned" /\ last = "forced_ok"

\* A step in which the get of a detached forced refresh fails
ForcedFailStep ==
    /\ last' = "forced_fail"
    /\ forced_in_get' = forced_in_get - 1

\* C23: a detached forced refresh whose get fails leaves the failure count,
\* the availability flag, the decoded device state and the handler that
\* spawned it as they were; the count grows only in a failed scheduled poll.
C23_ForcedFailureChangesNothing ==
    [][/\ ForcedFailStep =>
             UNCHANGED <<update_failures, attr_available, decoded, cmd>>
       /\ update_failures' > update_failures =>
             (update_pc = "get" /\ update_pc' = "idle" /\ last' = "poll_fail")]_vars

\* The forced refresh of a returned command has failed on a device with two
\* failed polls
C23_Witness ==
    /\ last = "forced_fail" /\ cmd.pc = "returned" /\ cmd.spawned >= 1
    /\ update_failures = UPDATE_RETRIES - 1 /\ attr_available
    /\ tuya_state = "Charging"

====
